---- MODULE Spec2Model ----
(***************************************************************************)
(* Model of the PokemonExplorer client: the zustand store                  *)
(* (store/pokemonStore), the list hook useFetchItems, the detail hook      *)
(* usePokemonDetail, the API layer (api/pokemonApi) and the two screens    *)
(* that drive them.                                                        *)
(*                                                                         *)
(* Every asynchronous operation is split at its single `await`: one action *)
(* for the synchronous prefix that issues the gateway request, and one     *)
(* action per outcome for the continuation (try body or catch, followed by *)
(* the finally block).  Requests that were issued and have not settled are *)
(* kept in the bag `inflight`; they settle in any order.                   *)
(***************************************************************************)
EXTENDS Integers, Sequences, FiniteSets, Bags, TLC

VARIABLES
    \* ---- store/pokemonStore: list screen state
    pokemonList, filteredList, searchQuery, isLoading, isRefreshing,
    error, hasMore, pagination,
    \* ---- store/pokemonStore: detail screen state
    selectedPokemon, detailLoading, detailError,
    \* ---- hooks/useFetchItems: useRef guards
    isFetchingRef, isLoadingMoreRef,
    \* ---- PokemonListScreen (the initial route) is mounted
    mounted,
    \* ---- PokemonDetailScreen: route parameter of the mounted detail screen
    pokemonId,
    \* ---- gateway requests issued and not yet settled
    inflight,
    \* ---- history (not program state): pages applied since the last replace,
    \*      hasMore flag of the last applied list response, and the operation
    \*      whose failure set the current error
    applied, lastFlag, errorFrom,
    \* ---- api/pokemonApi getErrorMessage: the value it is called with and
    \*      the string it returned (Null before the call)
    thrown, message,
    \* ---- components/SearchBar: the text in the input, the debounce timer
    \*      (the text it will deliver and the time left), and history: the
    \*      clear button was pressed and nothing has been typed since
    localValue, timer, cleared

storeList   == <<pokemonList, filteredList, searchQuery, isLoading,
                 isRefreshing, error, hasMore, pagination>>
storeDetail == <<selectedPokemon, detailLoading, detailError>>
refs        == <<isFetchingRef, isLoadingMoreRef>>
history     == <<applied, lastFlag, errorFrom>>
vars        == <<pokemonList, filteredList, searchQuery, isLoading,
                 isRefreshing, error, hasMore, pagination,
                 selectedPokemon, detailLoading, detailError,
                 isFetchingRef, isLoadingMoreRef, mounted, pokemonId,
                 inflight, applied, lastFlag, errorFrom, thrown, message,
                 localValue, timer, cleared>>
classifier  == <<thrown, message>>
searchBar   == <<localValue, timer, cleared>>

(***************************************************************************)
(* Bounds                                                                  *)
(***************************************************************************)
MaxId             == 2   \* catalog ids 1..MaxId
MaxPageLen        == 2   \* entries in one gateway page
MaxPages          == 2   \* pages accumulated before loadMore stops being issued
MaxDetailInFlight == 3   \* detail requests pending together
MaxInFlight       == 2   \* list requests of one class pending together (reached only without the guards)
TickMs            == 100 \* time the clock advances in one step, in ms

(***************************************************************************)
(* Values                                                                  *)
(***************************************************************************)
Null     == "null"
NoScreen == 0

\* selectedPokemon = null.  Catalog ids start at 1.
NullPokemon == [id |-> 0, name |-> <<>>]

\* Strings are sequences of characters so that toLowerCase and includes
\* can be computed.
NameTable == << <<"A", "b">>, <<"b", "a">>, <<"B">>, <<"a", "a">> >>
NameOf(id) == NameTable[((id - 1) % Len(NameTable)) + 1]

\* Search texts typed by the user: none, lower case, upper case, mixed.
Queries == {<<>>, <<"a">>, <<"B">>, <<"b", "A">>}

Ids == 1..MaxId

\* types/index.ts Pokemon, reduced to the fields the store reads
Pokemon(id) == [id |-> id, name |-> NameOf(id)]
Entries == {Pokemon(id) : id \in Ids}

\* A gateway page: a run of consecutive catalog entries, possibly empty.
\* Two pages may overlap.
Pages ==
    {[i \in 1..n |-> Pokemon(start + i - 1)] : start \in Ids, n \in 0..MaxPageLen}
        \cap Seq(Entries)

\* types/index.ts PokemonDetail, reduced to its key
PokemonDetail(id) == [id |-> id, name |-> NameOf(id)]

(***************************************************************************)
(* api/pokemonApi                                                          *)
(***************************************************************************)
PageLimit == 20

\* What the HTTP layer can answer to GET /pokemon: a body without a results
\* array, or results with a `next` link that is null on the last page.
RawListResponses ==
    {[valid |-> FALSE, results |-> <<>>, next |-> Null]}
    \cup {[valid |-> TRUE, results |-> p, next |-> n] : p \in Pages, n \in {Null, "url"}}

\* A gateway that serves a fixed catalog: the page at each offset is one
\* entry (standing for the `limit` entries of the real page), pages at
\* different offsets are disjoint, and `next` is null on the last page.
CatalogPage(offset) ==
    IF offset \div PageLimit < MaxId
    THEN <<Pokemon((offset \div PageLimit) + 1)>>
    ELSE <<>>

CatalogResponse(offset) ==
    [valid   |-> TRUE,
     results |-> CatalogPage(offset),
     next    |-> IF (offset \div PageLimit) + 1 < MaxId THEN "url" ELSE Null]

\* fetchPokemonList: an invalid body yields the empty page with hasMore=false,
\* otherwise hasMore is `next !== null`.
fetchPokemonList(raw) ==
    IF ~raw.valid
    THEN [pokemon |-> <<>>, hasMore |-> FALSE]
    ELSE [pokemon |-> raw.results, hasMore |-> (raw.next # Null)]

\* Failures a call can reject with.  axios: axios.isAxiosError(error);
\* code: error.code; status: error.response.status, 0 when there is no
\* response; isError: error instanceof Error; message: error.message.
AxiosError(code, status) ==
    [axios |-> TRUE, code |-> code, status |-> status, isError |-> TRUE,
     message |-> "axios"]
PlainError(msg) ==
    [axios |-> FALSE, code |-> "", status |-> 0, isError |-> TRUE, message |-> msg]
Thrown(v) ==
    [axios |-> FALSE, code |-> "", status |-> 0, isError |-> FALSE, message |-> v]

MsgTimeout    == "Request timed out. Please check your connection and try again."
MsgNetwork    == "Network error. Please check your internet connection."
MsgNotFound   == "Pokemon not found."
MsgRateLimit  == "Too many requests. Please wait a moment and try again."
MsgServer     == "Server error. Please try again later."
MsgUnexpected == "An unexpected error occurred. Please try again."
MsgUnknown    == "An unknown error occurred. Please try again."
MsgInvalid    == "Invalid response from Pokemon API"

\* Variant of getErrorMessage that looks for the missing response before
\* the transport code.
getErrorMessage_ResponseFirst(e) ==
    IF e.axios
    THEN IF e.status = 0 THEN MsgNetwork
         ELSE IF e.code = "ECONNABORTED" THEN MsgTimeout
         ELSE CASE e.status = 404 -> MsgNotFound
                [] e.status = 429 -> MsgRateLimit
                [] e.status \in {500, 502, 503} -> MsgServer
                [] OTHER -> MsgUnexpected
    ELSE IF e.isError THEN e.message
    ELSE MsgUnknown

getErrorMessage(e) ==
    IF e.axios
    THEN IF e.code = "ECONNABORTED" THEN MsgTimeout
         ELSE IF e.status = 0 THEN MsgNetwork
         ELSE CASE e.status = 404 -> MsgNotFound
                [] e.status = 429 -> MsgRateLimit
                [] e.status \in {500, 502, 503} -> MsgServer
                [] OTHER -> MsgUnexpected
    ELSE IF e.isError THEN e.message
    ELSE MsgUnknown

\* Values getErrorMessage can be called with: axios errors by transport
\* code and response status (0: no response), other Error objects by
\* message, and values that are no Error at all.
ErrorCodes    == {"ECONNABORTED", "ETIMEDOUT", "ERR_NETWORK", "ERR_BAD_REQUEST",
                  "ERR_BAD_RESPONSE"}
ErrorStatuses == {0, 400, 401, 403, 404, 408, 429, 500, 501, 502, 503, 504}
Errors ==
    {AxiosError(c, st) : c \in ErrorCodes, st \in ErrorStatuses}
    \cup {PlainError(m) : m \in {MsgInvalid, "boom", ""}}
    \cup {Thrown(v) : v \in {"", "text"}}

\* Rejections of the list endpoint and of the detail endpoint used by the
\* lifecycle actions below.
ListFailures   == {AxiosError("ECONNABORTED", 0), AxiosError("ERR_BAD_RESPONSE", 500)}
DetailFailures == {AxiosError("ERR_BAD_REQUEST", 404), PlainError(MsgInvalid)}

(***************************************************************************)
(* store/pokemonStore                                                      *)
(***************************************************************************)
Lower(c) == CASE c = "A" -> "a" [] c = "B" -> "b" [] OTHER -> c

\* String.prototype.toLowerCase
toLowerCase(s) == [i \in 1..Len(s) |-> Lower(s[i])]

\* String.prototype.includes
includes(s, sub) ==
    \E i \in 0..(Len(s) - Len(sub)) : SubSeq(s, i + 1, i + Len(sub)) = sub

\* The filter expression shared by setPokemonList and setSearchQuery:
\*   query ? list.filter(p => p.name.toLowerCase().includes(query)) : list
\* where query is the lower-cased search text.
filterByQuery(list, query) ==
    LET Test(p) == includes(toLowerCase(p.name), query)
    IN  IF query # <<>> THEN SelectSeq(list, Test) ELSE list

INITIAL_PAGINATION == [limit |-> PageLimit, offset |-> 0]

\* Variant of setPokemonList: appending skips entries whose id is already
\* in the list.
setPokemonList_Dedup(list, query, pokemon, append) ==
    LET Fresh(p) == \A i \in 1..Len(list) : list[i].id # p.id
        newList == IF append THEN list \o SelectSeq(pokemon, Fresh) ELSE pokemon
    IN  [pokemonList  |-> newList,
         filteredList |-> filterByQuery(newList, toLowerCase(query))]

\* setPokemonList(pokemon, append): the new values of pokemonList and
\* filteredList, given the state's list and search text.
setPokemonList(list, query, pokemon, append) ==
    LET newList == IF append THEN list \o pokemon ELSE pokemon
    IN  [pokemonList  |-> newList,
         filteredList |-> filterByQuery(newList, toLowerCase(query))]

\* Variant of setSearchQuery: the search text is not lower-cased.
setSearchQuery_CaseSensitive(list, query) == filterByQuery(list, query)

\* setSearchQuery(searchQuery): the new filteredList.
setSearchQuery(list, query) == filterByQuery(list, toLowerCase(query))

(***************************************************************************)
(* In-flight requests                                                      *)
(***************************************************************************)
Request(op, limit, offset, id) ==
    [op |-> op, limit |-> limit, offset |-> offset, id |-> id]

Issue(r)  == inflight (+) SetToBag({r})
Settle(r) == inflight (-) SetToBag({r})

Pending(op) == {r \in BagToSet(inflight) : r.op = op}

RECURSIVE SumCopies(_)
SumCopies(S) ==
    IF S = {} THEN 0
    ELSE LET r == CHOOSE x \in S : TRUE
         IN  CopiesIn(r, inflight) + SumCopies(S \ {r})

InFlight(op) == SumCopies(Pending(op))

\* The store's initial state, the refs' initial values, nothing requested.
InitStore ==
    /\ pokemonList = <<>>
    /\ filteredList = <<>>
    /\ searchQuery = <<>>
    /\ isLoading = FALSE
    /\ isRefreshing = FALSE
    /\ error = Null
    /\ hasMore = TRUE
    /\ pagination = INITIAL_PAGINATION
    /\ selectedPokemon = NullPokemon
    /\ detailLoading = FALSE
    /\ detailError = Null
    /\ isFetchingRef = FALSE
    /\ isLoadingMoreRef = FALSE
    /\ mounted = FALSE
    /\ pokemonId = NoScreen
    /\ inflight = EmptyBag
    /\ applied = <<>>
    /\ lastFlag = <<>>
    /\ errorFrom = Null

\* No rejection has been classified.
NoThrown == Thrown("")

\* SearchBar's debounceMs default.
DebounceMs == 300

\* debounceTimerRef with no timer running.
NoTimer == [set |-> FALSE, text |-> <<>>, left |-> 0]

\* SearchBar as first rendered: useState(value) with the store's '' and no
\* timer.
InitSearchBar ==
    /\ localValue = <<>>
    /\ timer = NoTimer
    /\ cleared = FALSE

Init ==
    /\ InitStore
    /\ InitSearchBar
    /\ thrown = NoThrown
    /\ message = Null

(***************************************************************************)
(* hooks/useFetchItems                                                     *)
(***************************************************************************)
detailSide == <<selectedPokemon, detailLoading, detailError, pokemonId>>

\* Variant of loadInitialData without the isFetchingRef check.
LoadInitialData_NoGuard ==
    /\ InFlight("initial") < MaxInFlight
    /\ isFetchingRef' = TRUE
    /\ isLoading' = TRUE
    /\ error' = Null
    /\ errorFrom' = Null
    /\ inflight' = Issue(Request("initial", PageLimit, 0, 0))
    /\ UNCHANGED <<pokemonList, filteredList, searchQuery, isRefreshing, hasMore,
                   pagination, isLoadingMoreRef, detailSide, applied, lastFlag>>

\* loadInitialData up to its await.
LoadInitialData ==
    /\ ~isFetchingRef
    /\ isFetchingRef' = TRUE
    /\ isLoading' = TRUE
    /\ error' = Null
    /\ errorFrom' = Null
    /\ inflight' = Issue(Request("initial", PageLimit, 0, 0))
    /\ UNCHANGED <<pokemonList, filteredList, searchQuery, isRefreshing, hasMore,
                   pagination, isLoadingMoreRef, detailSide, applied, lastFlag>>

\* Variant of the loadInitialData continuation that appends the page
\* (append=true) instead of replacing the list.
LoadInitialSuccess_Appends(raw) ==
    \E r \in Pending("initial") :
        LET res == fetchPokemonList(raw)
            set == setPokemonList(pokemonList, searchQuery, res.pokemon, TRUE)
        IN  /\ pokemonList' = set.pokemonList
            /\ filteredList' = set.filteredList
            /\ hasMore' = res.hasMore
            /\ pagination' = [limit |-> PageLimit, offset |-> PageLimit]
            /\ isLoading' = FALSE
            /\ isFetchingRef' = FALSE
            /\ inflight' = Settle(r)
            /\ applied' = <<res.pokemon>>
            /\ lastFlag' = <<res.hasMore>>
            /\ UNCHANGED <<searchQuery, isRefreshing, error, errorFrom, isLoadingMoreRef,
                           detailSide>>

\* loadInitialData after its await resolved: try body, then finally.
LoadInitialSuccess(raw) ==
    \E r \in Pending("initial") :
        LET res == fetchPokemonList(raw)
            set == setPokemonList(pokemonList, searchQuery, res.pokemon, FALSE)
        IN  /\ pokemonList' = set.pokemonList
            /\ filteredList' = set.filteredList
            /\ hasMore' = res.hasMore
            /\ pagination' = [limit |-> PageLimit, offset |-> PageLimit]
            /\ isLoading' = FALSE
            /\ isFetchingRef' = FALSE
            /\ inflight' = Settle(r)
            /\ applied' = <<res.pokemon>>
            /\ lastFlag' = <<res.hasMore>>
            /\ UNCHANGED <<searchQuery, isRefreshing, error, errorFrom, isLoadingMoreRef,
                           detailSide>>

\* Variant of the loadInitialData catch block that also empties the list.
LoadInitialFailure_DropsList(err) ==
    \E r \in Pending("initial") :
        /\ error' = getErrorMessage(err)
        /\ pokemonList' = <<>>
        /\ filteredList' = <<>>
        /\ isLoading' = FALSE
        /\ isFetchingRef' = FALSE
        /\ inflight' = Settle(r)
        /\ errorFrom' = "initial"
        /\ UNCHANGED <<searchQuery, isRefreshing, hasMore,
                       pagination, isLoadingMoreRef, detailSide, applied, lastFlag>>

\* Variant of the loadInitialData catch block that sends the request again
\* by itself and stays in the loading state.
LoadInitialFailure_Retries(err) ==
    \E r \in Pending("initial") :
        /\ error' = getErrorMessage(err)
        /\ errorFrom' = "initial"
        /\ inflight' = inflight
        /\ isLoading' = TRUE
        /\ isFetchingRef' = TRUE
        /\ UNCHANGED <<pokemonList, filteredList, searchQuery, isRefreshing, hasMore,
                       pagination, isLoadingMoreRef, detailSide, applied, lastFlag>>

\* Variant of the loadInitialData finally block that releases the guard
\* and leaves isLoading up.
LoadInitialFailure_KeepsLoading(err) ==
    \E r \in Pending("initial") :
        /\ error' = getErrorMessage(err)
        /\ isFetchingRef' = FALSE
        /\ inflight' = Settle(r)
        /\ errorFrom' = "initial"
        /\ UNCHANGED <<pokemonList, filteredList, searchQuery, isLoading, isRefreshing,
                       hasMore, pagination, isLoadingMoreRef, detailSide, applied,
                       lastFlag>>

\* loadInitialData after its await rejected: catch, then finally.
LoadInitialFailure(err) ==
    \E r \in Pending("initial") :
        /\ error' = getErrorMessage(err)
        /\ isLoading' = FALSE
        /\ isFetchingRef' = FALSE
        /\ inflight' = Settle(r)
        /\ errorFrom' = "initial"
        /\ UNCHANGED <<pokemonList, filteredList, searchQuery, isRefreshing, hasMore,
                       pagination, isLoadingMoreRef, detailSide, applied, lastFlag>>

\* retryFetch awaits loadInitialData().
RetryFetch == LoadInitialData

\* Variant of loadMoreData without the isLoadingMoreRef check.
LoadMoreData_NoRefGuard ==
    /\ ~(~hasMore \/ isLoading \/ isRefreshing)
    /\ pagination.offset < MaxPages * PageLimit
    /\ InFlight("more") < MaxInFlight
    /\ isLoadingMoreRef' = TRUE
    /\ inflight' = Issue(Request("more", pagination.limit, pagination.offset, 0))
    /\ UNCHANGED <<storeList, isFetchingRef, detailSide, history>>

\* Variant of loadMoreData without the hasMore check.
LoadMoreData_IgnoresHasMore ==
    /\ ~(isLoadingMoreRef \/ isLoading \/ isRefreshing)
    /\ pagination.offset < MaxPages * PageLimit
    /\ isLoadingMoreRef' = TRUE
    /\ inflight' = Issue(Request("more", pagination.limit, pagination.offset, 0))
    /\ UNCHANGED <<storeList, isFetchingRef, detailSide, history>>

\* Variant of loadMoreData whose guard does not look at isLoading and
\* isRefreshing.
LoadMoreData_IgnoresLoading ==
    /\ ~(isLoadingMoreRef \/ ~hasMore)
    /\ pagination.offset < MaxPages * PageLimit
    /\ isLoadingMoreRef' = TRUE
    /\ inflight' = Issue(Request("more", pagination.limit, pagination.offset, 0))
    /\ UNCHANGED <<storeList, isFetchingRef, detailSide, history>>

\* loadMoreData up to its await.  The request carries the pagination value
\* of the render that created the callback.
\* (The second conjunct bounds the cursor: no page beyond MaxPages is asked for.)
LoadMoreData ==
    /\ ~(isLoadingMoreRef \/ ~hasMore \/ isLoading \/ isRefreshing)
    /\ pagination.offset < MaxPages * PageLimit
    /\ isLoadingMoreRef' = TRUE
    /\ inflight' = Issue(Request("more", pagination.limit, pagination.offset, 0))
    /\ UNCHANGED <<storeList, isFetchingRef, detailSide, history>>

\* Variant of the loadMoreData continuation that advances the cursor the
\* store holds when the response arrives, not the one the request was made with.
LoadMoreSuccess_StoredCursor(raw) ==
    \E r \in Pending("more") :
        LET res == fetchPokemonList(raw)
            set == setPokemonList(pokemonList, searchQuery, res.pokemon, TRUE)
        IN  /\ pokemonList' = set.pokemonList
            /\ filteredList' = set.filteredList
            /\ hasMore' = res.hasMore
            /\ pagination' = [limit |-> pagination.limit,
                              offset |-> pagination.offset + pagination.limit]
            /\ isLoadingMoreRef' = FALSE
            /\ inflight' = Settle(r)
            /\ applied' = Append(applied, res.pokemon)
            /\ lastFlag' = <<res.hasMore>>
            /\ UNCHANGED <<searchQuery, isLoading, isRefreshing, error, errorFrom,
                           isFetchingRef, detailSide>>

\* Variant of the loadMoreData continuation with a generation check: a
\* response whose request was made with another cursor than the stored one
\* is dropped.
LoadMoreSuccess_DropsStale(raw) ==
    \E r \in Pending("more") :
        LET res   == fetchPokemonList(raw)
            set   == setPokemonList(pokemonList, searchQuery, res.pokemon, TRUE)
            fresh == r.offset = pagination.offset
        IN  /\ pokemonList' = IF fresh THEN set.pokemonList ELSE pokemonList
            /\ filteredList' = IF fresh THEN set.filteredList ELSE filteredList
            /\ hasMore' = IF fresh THEN res.hasMore ELSE hasMore
            /\ pagination' = IF fresh THEN [limit |-> r.limit, offset |-> r.offset + r.limit]
                              ELSE pagination
            /\ isLoadingMoreRef' = FALSE
            /\ inflight' = Settle(r)
            /\ applied' = Append(applied, res.pokemon)
            /\ lastFlag' = <<res.hasMore>>
            /\ UNCHANGED <<searchQuery, isLoading, isRefreshing, error, errorFrom,
                           isFetchingRef, detailSide>>

\* Variant of the loadMoreData continuation that leaves the cursor where it is.
LoadMoreSuccess_KeepsCursor(raw) ==
    \E r \in Pending("more") :
        LET res == fetchPokemonList(raw)
            set == setPokemonList(pokemonList, searchQuery, res.pokemon, TRUE)
        IN  /\ pokemonList' = set.pokemonList
            /\ filteredList' = set.filteredList
            /\ hasMore' = res.hasMore
            /\ isLoadingMoreRef' = FALSE
            /\ inflight' = Settle(r)
            /\ applied' = Append(applied, res.pokemon)
            /\ lastFlag' = <<res.hasMore>>
            /\ UNCHANGED <<searchQuery, isLoading, isRefreshing, error, errorFrom,
                           pagination, isFetchingRef, detailSide>>

\* loadMoreData after its await resolved.  `pagination` in the continuation
\* is the value captured when the request was issued.
LoadMoreSuccess(raw) ==
    \E r \in Pending("more") :
        LET res == fetchPokemonList(raw)
            set == setPokemonList(pokemonList, searchQuery, res.pokemon, TRUE)
        IN  /\ pokemonList' = set.pokemonList
            /\ filteredList' = set.filteredList
            /\ hasMore' = res.hasMore
            /\ pagination' = [limit |-> r.limit, offset |-> r.offset + r.limit]
            /\ isLoadingMoreRef' = FALSE
            /\ inflight' = Settle(r)
            /\ applied' = Append(applied, res.pokemon)
            /\ lastFlag' = <<res.hasMore>>
            /\ UNCHANGED <<searchQuery, isLoading, isRefreshing, error, errorFrom,
                           isFetchingRef, detailSide>>

\* Variant of the loadMoreData catch block that reports the failure through
\* the store's error.
LoadMoreFailure_SetsError(err) ==
    \E r \in Pending("more") :
        /\ error' = getErrorMessage(err)
        /\ isLoadingMoreRef' = FALSE
        /\ inflight' = Settle(r)
        /\ UNCHANGED <<pokemonList, filteredList, searchQuery, isLoading, isRefreshing,
                       hasMore, pagination, isFetchingRef, detailSide, history>>

\* loadMoreData after its await rejected: console.error, then finally.
LoadMoreFailure(err) ==
    \E r \in Pending("more") :
        /\ isLoadingMoreRef' = FALSE
        /\ inflight' = Settle(r)
        /\ UNCHANGED <<storeList, isFetchingRef, detailSide, history>>

\* Variant of refreshData that calls resetList() before the fetch instead
\* of after it.
RefreshData_ClearsFirst ==
    /\ ~(isFetchingRef \/ isLoading)
    /\ isFetchingRef' = TRUE
    /\ pokemonList' = <<>>
    /\ filteredList' = <<>>
    /\ searchQuery' = <<>>
    /\ isLoading' = FALSE
    /\ isRefreshing' = TRUE
    /\ error' = Null
    /\ errorFrom' = Null
    /\ hasMore' = TRUE
    /\ pagination' = INITIAL_PAGINATION
    /\ inflight' = Issue(Request("refresh", PageLimit, 0, 0))
    /\ UNCHANGED <<isLoadingMoreRef, detailSide, applied, lastFlag>>

\* Variant of refreshData whose guard is `isLoading` alone.
RefreshData_OnlyIsLoading ==
    /\ ~isLoading
    /\ InFlight("refresh") < MaxInFlight
    /\ isFetchingRef' = TRUE
    /\ isRefreshing' = TRUE
    /\ error' = Null
    /\ errorFrom' = Null
    /\ inflight' = Issue(Request("refresh", PageLimit, 0, 0))
    /\ UNCHANGED <<pokemonList, filteredList, searchQuery, isLoading, hasMore,
                   pagination, isLoadingMoreRef, detailSide, applied, lastFlag>>

\* refreshData up to its await.
RefreshData ==
    /\ ~(isFetchingRef \/ isLoading)
    /\ isFetchingRef' = TRUE
    /\ isRefreshing' = TRUE
    /\ error' = Null
    /\ errorFrom' = Null
    /\ inflight' = Issue(Request("refresh", PageLimit, 0, 0))
    /\ UNCHANGED <<pokemonList, filteredList, searchQuery, isLoading, hasMore,
                   pagination, isLoadingMoreRef, detailSide, applied, lastFlag>>

\* Variant of the refreshData continuation without resetList(): the search
\* text stays and the fresh page is filtered by it.
RefreshSuccess_KeepsSearch(raw) ==
    \E r \in Pending("refresh") :
        LET res == fetchPokemonList(raw)
            set == setPokemonList(pokemonList, searchQuery, res.pokemon, FALSE)
        IN  /\ pokemonList' = set.pokemonList
            /\ filteredList' = set.filteredList
            /\ hasMore' = res.hasMore
            /\ pagination' = [limit |-> PageLimit, offset |-> PageLimit]
            /\ isRefreshing' = FALSE
            /\ isFetchingRef' = FALSE
            /\ inflight' = Settle(r)
            /\ applied' = <<res.pokemon>>
            /\ lastFlag' = <<res.hasMore>>
            /\ UNCHANGED <<searchQuery, isLoading, error, errorFrom, isLoadingMoreRef,
                           detailSide>>

\* refreshData after its await resolved: resetList(), setPokemonList(page,
\* false) on the reset state, setHasMore, setPagination, then finally.
RefreshSuccess(raw) ==
    \E r \in Pending("refresh") :
        LET res == fetchPokemonList(raw)
            set == setPokemonList(<<>>, <<>>, res.pokemon, FALSE)
        IN  /\ pokemonList' = set.pokemonList
            /\ filteredList' = set.filteredList
            /\ searchQuery' = <<>>
            /\ isLoading' = FALSE
            /\ error' = Null
            /\ errorFrom' = Null
            /\ hasMore' = res.hasMore
            /\ pagination' = [limit |-> PageLimit, offset |-> PageLimit]
            /\ isRefreshing' = FALSE
            /\ isFetchingRef' = FALSE
            /\ inflight' = Settle(r)
            /\ applied' = <<res.pokemon>>
            /\ lastFlag' = <<res.hasMore>>
            /\ UNCHANGED <<isLoadingMoreRef, detailSide>>

\* Variant of the refreshData catch block without the finally block.
RefreshFailure_NoFinally(err) ==
    \E r \in Pending("refresh") :
        /\ error' = getErrorMessage(err)
        /\ inflight' = Settle(r)
        /\ errorFrom' = "refresh"
        /\ UNCHANGED <<pokemonList, filteredList, searchQuery, isLoading, isRefreshing,
                       hasMore, pagination, refs, detailSide, applied, lastFlag>>

\* refreshData after its await rejected.
RefreshFailure(err) ==
    \E r \in Pending("refresh") :
        /\ error' = getErrorMessage(err)
        /\ isRefreshing' = FALSE
        /\ isFetchingRef' = FALSE
        /\ inflight' = Settle(r)
        /\ errorFrom' = "refresh"
        /\ UNCHANGED <<pokemonList, filteredList, searchQuery, isLoading, hasMore,
                       pagination, isLoadingMoreRef, detailSide, applied, lastFlag>>

(***************************************************************************)
(* screens/PokemonListScreen                                               *)
(***************************************************************************)
\* onEndReached of the list.
HandleEndReached ==
    /\ ~isLoading /\ ~isRefreshing /\ hasMore /\ searchQuery = <<>>
    /\ LoadMoreData

\* Variant of StateHandler that shows the error view only when there is
\* nothing to display.
StateHandler_ErrorOnlyWhenEmpty(loading, err, empty) ==
    IF loading THEN "loading"
    ELSE IF err # Null /\ err # "" /\ empty THEN "error"
    ELSE IF empty THEN "empty"
    ELSE "children"

\* components/StateHandler: which of its four renderings it returns.  The
\* test of the error prop is its truthiness: null and '' are no error.
StateHandler(loading, err, empty) ==
    IF loading THEN "loading"
    ELSE IF err # Null /\ err # "" THEN "error"
    ELSE IF empty THEN "empty"
    ELSE "children"

\* What the list screen renders: the StateHandler around the FlatList.  The
\* screen's pokemonList is the hook's, which is the store's filteredList.
ListView ==
    StateHandler(isLoading /\ Len(filteredList) = 0,
                 error,
                 ~isLoading /\ Len(filteredList) = 0)

\* SearchBar onChangeText is the store's setSearchQuery.
SetSearchQuery(q) ==
    /\ searchQuery' = q
    /\ filteredList' = setSearchQuery(pokemonList, q)
    /\ UNCHANGED <<pokemonList, isLoading, isRefreshing, error, hasMore, pagination,
                   refs, inflight, detailSide, history>>

(***************************************************************************)
(* components/SearchBar                                                    *)
(***************************************************************************)
\* Variant of handleChangeText without the debounce: every keystroke calls
\* onChangeText at once.
HandleChangeText_Immediate(text) ==
    /\ localValue' = text
    /\ SetSearchQuery(text)
    /\ cleared' = FALSE
    /\ UNCHANGED timer

\* handleChangeText(text): setLocalValue, clearTimeout of the pending timer,
\* setTimeout of a new one for debounceMs.
HandleChangeText(text) ==
    /\ localValue' = text
    /\ timer' = [set |-> TRUE, text |-> text, left |-> DebounceMs]
    /\ cleared' = FALSE
    /\ UNCHANGED <<storeList, refs, inflight, detailSide, history>>

\* Time passes while the timer runs.  A timer that has run out fires before
\* the clock advances further.
Tick ==
    /\ timer.set /\ timer.left > 0
    /\ timer' = [timer EXCEPT !.left = IF @ > TickMs THEN @ - TickMs ELSE 0]
    /\ UNCHANGED <<localValue, cleared, storeList, refs, inflight, detailSide, history>>

\* The step in progress ends with a new SearchBar instance or with none.  The
\* SearchBar is rendered by renderHeader, which the list screen re-creates
\* whenever searchQuery changes and hands to the FlatList as its
\* ListHeaderComponent: a new function is a new component type, so the old
\* SearchBar is unmounted and a new one mounted.  The FlatList itself is
\* rendered only while StateHandler returns its children.
Remounts ==
    \/ ListView # "children"
    \/ ListView' # "children"
    \/ searchQuery' # searchQuery

\* The SearchBar across a render of the list screen: the unmount cleanup
\* clears the timer and the next instance starts from useState(value);
\* an instance that stays keeps its text and its timer.
RenderHeader ==
    IF Remounts
    THEN localValue' = searchQuery' /\ timer' = NoTimer
    ELSE UNCHANGED <<localValue, timer>>

\* The timer's callback: onChangeText(text), which is the store's
\* setSearchQuery, and the render that follows.
DebounceFire ==
    /\ timer.set /\ timer.left = 0
    /\ SetSearchQuery(timer.text)
    /\ timer' = NoTimer
    /\ localValue' = IF Remounts THEN searchQuery' ELSE localValue
    /\ UNCHANGED cleared

\* handleClear: setLocalValue(''), onChangeText(''), and the render that
\* follows.  handleClear itself does not touch the pending timer.
HandleClear ==
    /\ SetSearchQuery(<<>>)
    /\ localValue' = <<>>
    /\ timer' = IF Remounts THEN NoTimer ELSE timer
    /\ cleared' = TRUE

(***************************************************************************)
(* hooks/usePokemonDetail and screens/PokemonDetailScreen                  *)
(***************************************************************************)
listSide == <<storeList, refs, history>>

\* Variant of fetchDetail that does not clear the previous error.
FetchDetail_KeepsError(id) ==
    /\ InFlight("detail") < MaxDetailInFlight
    /\ detailLoading' = TRUE
    /\ inflight' = Issue(Request("detail", 0, 0, id))
    /\ UNCHANGED <<selectedPokemon, detailError, listSide>>

\* fetchDetail(idOrName) up to its await.
\* (The first conjunct bounds the pending requests; the code has no such check.)
FetchDetail(id) ==
    /\ InFlight("detail") < MaxDetailInFlight
    /\ detailLoading' = TRUE
    /\ detailError' = Null
    /\ inflight' = Issue(Request("detail", 0, 0, id))
    /\ UNCHANGED <<selectedPokemon, listSide>>

\* fetchDetail after its await resolved: setSelectedPokemon, then finally.
FetchDetailSuccess ==
    \E r \in Pending("detail") :
        /\ selectedPokemon' = PokemonDetail(r.id)
        /\ detailLoading' = FALSE
        /\ inflight' = Settle(r)
        /\ UNCHANGED <<detailError, pokemonId, listSide>>

\* Variant of the fetchDetail catch block that reports through the list
\* screen's error.
FetchDetailFailure_SetsListError(err) ==
    \E r \in Pending("detail") :
        /\ error' = getErrorMessage(err)
        /\ detailLoading' = FALSE
        /\ inflight' = Settle(r)
        /\ UNCHANGED <<selectedPokemon, detailError, pokemonId, pokemonList,
                       filteredList, searchQuery, isLoading, isRefreshing, hasMore,
                       pagination, refs, history>>

\* fetchDetail after its await rejected: setDetailError, then finally.
FetchDetailFailure(err) ==
    \E r \in Pending("detail") :
        /\ detailError' = getErrorMessage(err)
        /\ detailLoading' = FALSE
        /\ inflight' = Settle(r)
        /\ UNCHANGED <<selectedPokemon, pokemonId, listSide>>

\* The store's resetDetail.
ResetDetail ==
    /\ selectedPokemon' = NullPokemon
    /\ detailLoading' = FALSE
    /\ detailError' = Null

\* Navigating to the detail screen with a route id: the screen mounts and
\* the hook's effect calls fetchDetail(pokemonId).
EnterDetail(id) ==
    /\ pokemonId = NoScreen
    /\ pokemonId' = id
    /\ FetchDetail(id)

\* Going back: the screen unmounts and the effect's cleanup calls
\* resetDetail().  Pending requests are not cancelled.
LeaveDetail ==
    /\ pokemonId # NoScreen
    /\ pokemonId' = NoScreen
    /\ ResetDetail
    /\ UNCHANGED <<inflight, listSide>>

\* retry() of the mounted detail screen: fetchDetail(pokemonId).
Retry ==
    /\ pokemonId # NoScreen
    /\ FetchDetail(pokemonId)
    /\ UNCHANGED pokemonId

\* cleanup() of the mounted detail screen: resetDetail().
Cleanup ==
    /\ pokemonId # NoScreen
    /\ ResetDetail
    /\ UNCHANGED <<pokemonId, inflight, listSide>>

(***************************************************************************)
(* Specifications                                                          *)
(***************************************************************************)
\* Mounting the list screen runs its effect, which calls loadInitialData().
MountListScreen ==
    /\ ~mounted
    /\ mounted' = TRUE
    /\ LoadInitialData
    /\ UNCHANGED <<classifier, searchBar>>

\* A step of the mounted application.
Mounted(A) == mounted /\ A /\ RenderHeader /\ UNCHANGED <<mounted, classifier, cleared>>

\* The list screen, the operations its hook returns (each may also be
\* invoked directly), and the responses to its requests.
NextList ==
    \/ MountListScreen
    \/ Mounted(RetryFetch)
    \/ \E raw \in RawListResponses : Mounted(LoadInitialSuccess(raw))
    \/ \E err \in ListFailures : Mounted(LoadInitialFailure(err))
    \/ Mounted(LoadMoreData)
    \/ Mounted(HandleEndReached)
    \/ \E raw \in RawListResponses : Mounted(LoadMoreSuccess(raw))
    \/ \E err \in ListFailures : Mounted(LoadMoreFailure(err))
    \/ Mounted(RefreshData)
    \/ \E raw \in RawListResponses : Mounted(RefreshSuccess(raw))
    \/ \E err \in ListFailures : Mounted(RefreshFailure(err))
    \/ \E q \in Queries : Mounted(SetSearchQuery(q))

\* The detail screen, opened from the list, and the responses to its
\* requests.
DetailStep ==
    \/ \E id \in Ids : Mounted(EnterDetail(id))
    \/ Mounted(LeaveDetail)
    \/ Mounted(Retry)
    \/ Mounted(Cleanup)
    \/ Mounted(FetchDetailSuccess)
    \/ \E err \in DetailFailures : Mounted(FetchDetailFailure(err))

NextDetail == MountListScreen \/ DetailStep

Next == NextList \/ DetailStep

\* The whole client.
Spec == Init /\ [][Next]_vars

\* The list screen against the catalog gateway: a successful response is the
\* catalog's page for the offset of the request it answers.
NextCatalog ==
    \/ MountListScreen
    \/ Mounted(RetryFetch)
    \/ \E r \in Pending("initial") : Mounted(LoadInitialSuccess(CatalogResponse(r.offset)))
    \/ \E err \in ListFailures : Mounted(LoadInitialFailure(err))
    \/ Mounted(LoadMoreData)
    \/ Mounted(HandleEndReached)
    \/ \E r \in Pending("more") : Mounted(LoadMoreSuccess(CatalogResponse(r.offset)))
    \/ \E err \in ListFailures : Mounted(LoadMoreFailure(err))
    \/ Mounted(RefreshData)
    \/ \E r \in Pending("refresh") : Mounted(RefreshSuccess(CatalogResponse(r.offset)))
    \/ \E err \in ListFailures : Mounted(RefreshFailure(err))
    \/ \E q \in Queries : Mounted(SetSearchQuery(q))

\* The same, with the user never invoking loadInitial (retry) or refresh
\* while a page request is pending.
NextOrdered ==
    \/ MountListScreen
    \/ ~isLoadingMoreRef /\ Mounted(RetryFetch)
    \/ \E r \in Pending("initial") : Mounted(LoadInitialSuccess(CatalogResponse(r.offset)))
    \/ \E err \in ListFailures : Mounted(LoadInitialFailure(err))
    \/ Mounted(LoadMoreData)
    \/ Mounted(HandleEndReached)
    \/ \E r \in Pending("more") : Mounted(LoadMoreSuccess(CatalogResponse(r.offset)))
    \/ \E err \in ListFailures : Mounted(LoadMoreFailure(err))
    \/ ~isLoadingMoreRef /\ Mounted(RefreshData)
    \/ \E r \in Pending("refresh") : Mounted(RefreshSuccess(CatalogResponse(r.offset)))
    \/ \E err \in ListFailures : Mounted(RefreshFailure(err))
    \/ \E q \in Queries : Mounted(SetSearchQuery(q))

SpecOrdered == Init /\ [][NextOrdered]_vars

\* The list screen and, pushed on top of it, the detail screen.
NextApp == NextCatalog \/ DetailStep

SpecCatalog == Init /\ [][NextCatalog]_vars

\* The whole client against the catalog gateway.
SpecApp == Init /\ [][NextApp]_vars

\* The gateway answers: a pending request of each class eventually settles,
\* with a response or with a rejection (the client's timeout rejects a call
\* that gets no answer).
SettleInitial ==
    \/ \E r \in Pending("initial") : Mounted(LoadInitialSuccess(CatalogResponse(r.offset)))
    \/ \E err \in ListFailures : Mounted(LoadInitialFailure(err))
SettleMore ==
    \/ \E r \in Pending("more") : Mounted(LoadMoreSuccess(CatalogResponse(r.offset)))
    \/ \E err \in ListFailures : Mounted(LoadMoreFailure(err))
SettleRefresh ==
    \/ \E r \in Pending("refresh") : Mounted(RefreshSuccess(CatalogResponse(r.offset)))
    \/ \E err \in ListFailures : Mounted(RefreshFailure(err))
SettleDetail ==
    \/ Mounted(FetchDetailSuccess)
    \/ \E err \in DetailFailures : Mounted(FetchDetailFailure(err))

\* The operations that raise and lower loading flags and guards, and the
\* responses to them.  (The search text is never changed: no flag or guard
\* is computed from it.)
NextFlags ==
    \/ MountListScreen
    \/ Mounted(RetryFetch)
    \/ Mounted(LoadMoreData)
    \/ Mounted(RefreshData)
    \/ SettleInitial
    \/ SettleMore
    \/ SettleRefresh
    \/ \E id \in Ids : Mounted(EnterDetail(id))
    \/ Mounted(LeaveDetail)
    \/ Mounted(Retry)
    \/ Mounted(Cleanup)
    \/ SettleDetail

SpecFlags == Init /\ [][NextFlags]_vars

\* The same against a gateway that settles every call.  The user's actions
\* carry no fairness.
SpecFlagsFair ==
    /\ SpecFlags
    /\ WF_vars(SettleInitial)
    /\ WF_vars(SettleMore)
    /\ WF_vars(SettleRefresh)
    /\ WF_vars(SettleDetail)

\* The list screen alone (the detail screen is never opened).
SpecList == Init /\ [][NextList]_vars

\* The detail screen alone (no list operation is invoked).
SpecDetail == Init /\ [][NextDetail]_vars

\* getErrorMessage on its own: it is called once with any of the values a
\* rejection can carry.
InitClassify ==
    /\ InitStore
    /\ InitSearchBar
    /\ thrown \in Errors
    /\ message = Null

Classify ==
    /\ message = Null
    /\ message' = getErrorMessage(thrown)
    /\ UNCHANGED <<storeList, storeDetail, refs, mounted, pokemonId, inflight,
                   history, thrown, searchBar>>

NextClassify == Classify

SpecClassify == InitClassify /\ [][NextClassify]_vars

\* A step of the SearchBar while the list screen renders it.
Shown(A) == mounted /\ ListView = "children" /\ A /\ UNCHANGED <<mounted, classifier>>

\* The SearchBar over a list loaded page by page from the catalog gateway,
\* whose requests may fail; pull-to-refresh and the end of the list are
\* events of the rendered list and retry a button of the error view.
NextSearch ==
    \/ MountListScreen
    \/ \E r \in Pending("initial") : Mounted(LoadInitialSuccess(CatalogResponse(r.offset)))
    \/ \E err \in ListFailures : Mounted(LoadInitialFailure(err))
    \/ ListView = "error" /\ Mounted(RetryFetch)
    \/ ListView = "children" /\ Mounted(RefreshData)
    \/ \E r \in Pending("refresh") : Mounted(RefreshSuccess(CatalogResponse(r.offset)))
    \/ \E err \in ListFailures : Mounted(RefreshFailure(err))
    \/ ListView = "children" /\ Mounted(HandleEndReached)
    \/ \E r \in Pending("more") : Mounted(LoadMoreSuccess(CatalogResponse(r.offset)))
    \/ \E err \in ListFailures : Mounted(LoadMoreFailure(err))
    \/ \E text \in Queries \ {localValue} : Shown(HandleChangeText(text))
    \/ Shown(Tick)
    \/ Shown(DebounceFire)
    \/ Shown(HandleClear)

SpecSearch == Init /\ [][NextSearch]_vars

(***************************************************************************)
(* Properties                                                              *)
(***************************************************************************)
\* A step that issues, respectively settles, a request of class `op`.
Issued(op)  == InFlight(op)' > InFlight(op)
Settles(op) == InFlight(op)' < InFlight(op)

ListInFlight == InFlight("initial") + InFlight("refresh") + InFlight("more")

RECURSIVE Flatten(_)
Flatten(pages) ==
    IF pages = <<>> THEN <<>> ELSE Head(pages) \o Flatten(Tail(pages))

RECURSIVE SumLen(_)
SumLen(pages) ==
    IF pages = <<>> THEN 0 ELSE Len(Head(pages)) + SumLen(Tail(pages))

\* e is kept by the search text q: q is empty, or the lower-cased name
\* contains the lower-cased q.
Matches(e, q) ==
    \/ q = <<>>
    \/ LET n  == toLowerCase(e.name)
           lq == toLowerCase(q)
       IN  \E i \in 1..Len(n) : \E j \in i..Len(n) : SubSeq(n, i, j) = lq

\* The positions of `list` kept by q, in increasing order.
RECURSIVE KeptFrom(_, _, _)
KeptFrom(list, q, i) ==
    IF i > Len(list) THEN <<>>
    ELSE IF Matches(list[i], q) THEN <<list[i]>> \o KeptFrom(list, q, i + 1)
    ELSE KeptFrom(list, q, i + 1)

\* C1: in every reachable state filteredList is exactly the entries of
\* pokemonList whose lower-cased name contains the lower-cased searchQuery,
\* in the same relative order, and is the whole pokemonList when searchQuery
\* is empty.
C1_FilteredView ==
    /\ filteredList = KeptFrom(pokemonList, searchQuery, 1)
    /\ searchQuery = <<>> => filteredList = pokemonList

\* C1 witness: a mixed-case search text keeps some entries and drops others.
C1_Witness ==
    /\ searchQuery = <<"b", "A">>
    /\ filteredList # <<>>
    /\ Len(filteredList) < Len(pokemonList)

\* C2: the steps of refresh() before its response is applied (issuing the
\* request, and the failure continuation) leave pokemonList, filteredList,
\* the search text, the cursor and hasMore as they are; of the store only
\* error and isRefreshing change.
C2_RefreshKeepsList ==
    [][(Issued("refresh") \/ (Settles("refresh") /\ errorFrom' = "refresh"))
         => UNCHANGED <<pokemonList, filteredList, searchQuery, isLoading, hasMore,
                        pagination, storeDetail>>]_vars

\* C2 witness: a refresh has failed and the list it was issued on, filtered
\* by an active search text, is still there.
C2_Witness ==
    /\ errorFrom = "refresh"
    /\ error # Null
    /\ ~isRefreshing
    /\ pokemonList # <<>>
    /\ searchQuery # <<>>
    /\ pagination.offset > PageLimit

\* C3: at most one incremental page request is in flight, and the
\* page-load guard is held exactly while it is.
C3_SingleLoadMore ==
    /\ InFlight("more") <= 1
    /\ isLoadingMoreRef <=> InFlight("more") = 1

\* C3 witness: a page request is pending in a state where a second
\* loadMore() would pass every other check (and a refresh is pending too).
C3_Witness ==
    /\ InFlight("more") = 1
    /\ hasMore /\ ~isLoading
    /\ pagination.offset < MaxPages * PageLimit
    /\ InFlight("refresh") = 1

\* C4 as stated: while the search text is non-empty no step issues an
\* incremental page request.
C4_NoLoadMoreWhileSearching ==
    [][searchQuery # <<>> => ~Issued("more")]_vars

\* C4 state reached: a page request is pending for the stored cursor while
\* the search text is non-empty and hides part of the loaded list.
C4_Witness ==
    /\ searchQuery # <<>>
    /\ pokemonList # <<>>
    /\ Len(filteredList) < Len(pokemonList)
    /\ hasMore /\ ~isLoading /\ ~isRefreshing
    /\ isLoadingMoreRef
    /\ InFlight("more") = 1
    /\ \A r \in Pending("more") : r.offset = pagination.offset

\* C5 as stated: while any list request is in flight no step starts a
\* refresh.
C5_RefreshBlockedByAnyFetch ==
    [][ListInFlight > 0 => ~Issued("refresh") /\ (isRefreshing' => isRefreshing)]_vars

\* C5 amended: while an initial or refresh request is in flight (the shared
\* guard is held, or isLoading is true) no step starts a refresh.
C5_RefreshBlockedByInitialOrRefresh ==
    [][(isFetchingRef \/ isLoading)
         => ~Issued("refresh") /\ (isRefreshing' => isRefreshing)]_vars

\* C5 witness: a refresh was started while a page request was pending, and
\* is now itself what blocks the next refresh.
C5_Witness ==
    /\ InFlight("more") = 1
    /\ InFlight("refresh") = 1
    /\ isFetchingRef /\ isRefreshing

\* C6: at most one request of the initial/refresh class is in flight, the
\* shared guard is held exactly while it is, and loading flags are raised
\* only for it.
C6_SingleInitialOrRefresh ==
    /\ InFlight("initial") + InFlight("refresh") <= 1
    /\ isFetchingRef <=> InFlight("initial") + InFlight("refresh") = 1
    /\ isLoading => InFlight("initial") = 1
    /\ isRefreshing => InFlight("refresh") = 1

\* C6 witness: an initial request is pending over a list loaded earlier, so
\* loadInitial(), retry() and refresh() are all blocked.
C6_Witness ==
    /\ InFlight("initial") = 1
    /\ isFetchingRef /\ isLoading
    /\ pokemonList # <<>>

\* C7 as stated: at most one detail request is in flight.
C7_SingleDetailRequest == InFlight("detail") <= 1

\* C7 state reached: the mounted detail screen has two requests pending.
C7_Witness ==
    /\ pokemonId # NoScreen
    /\ InFlight("detail") = 2

\* C8 as stated: the stored detail is null or the record of the id the
\* mounted detail screen was opened with.
C8_NoStaleDetail ==
    selectedPokemon # NullPokemon => selectedPokemon.id = pokemonId

\* C8 state reached: the detail screen opened for one id holds the record
\* of another.
C8_Witness ==
    /\ pokemonId # NoScreen
    /\ selectedPokemon # NullPokemon
    /\ selectedPokemon.id # pokemonId

\* C9: the accumulated list is the concatenation, in arrival order, of the
\* pages applied since the list was last replaced, and its length is the
\* sum of their lengths.
C9_Concatenation ==
    /\ pokemonList = Flatten(applied)
    /\ Len(pokemonList) = SumLen(applied)

\* C9 witness: the initial page followed by a page that repeats it; both
\* copies are in the list.
C9_Witness ==
    /\ Len(applied) = 2
    /\ applied[1] # <<>>
    /\ applied[2] = applied[1]
    /\ Len(pokemonList) = 2 * Len(applied[1])
    /\ lastFlag = <<TRUE>>

\* C10 as stated: hasMore goes from false to true only in a step that
\* settles a loadInitial or a refresh request.
C10_ReopenedOnlyByInitialOrRefresh ==
    [][(~hasMore /\ hasMore') => (Settles("initial") \/ Settles("refresh"))]_vars

\* C10 amended: hasMore is the flag of the last applied list response;
\* while it is false no incremental page request is issued; and it goes from
\* false to true only in a step that applies a successful list response
\* carrying hasMore = true (loadInitial, refresh, or a loadMore that was
\* already in flight).
C10_HasMoreGate ==
    /\ [](lastFlag # <<>> => hasMore = lastFlag[1])
    /\ [][~hasMore => ~Issued("more") /\ (isLoadingMoreRef' => isLoadingMoreRef)]_vars
    /\ [][(~hasMore /\ hasMore')
            => /\ Settles("initial") \/ Settles("refresh") \/ Settles("more")
               /\ lastFlag' = <<TRUE>>]_vars

\* C10 witness: two full pages, the second one applied by loadMore with
\* hasMore = false; nothing is pending and loadMore() is disabled.
C10_Witness ==
    /\ Len(applied) = 2
    /\ Len(applied[1]) = MaxPageLen
    /\ Len(applied[2]) = MaxPageLen
    /\ Len(pokemonList) = 2 * MaxPageLen
    /\ ~hasMore
    /\ pagination.offset = 2 * PageLimit
    /\ inflight = EmptyBag
    /\ ~ENABLED LoadMoreData

\* Steps that apply a successful response, and steps that run a catch block.
\* (A successful loadMore appends a page to `applied`; the initial/refresh
\* catch blocks record themselves in errorFrom.)
MoreApplied    == Settles("more") /\ Len(applied') = Len(applied) + 1
MoreFailed     == Settles("more") /\ applied' = applied
InitialFailed  == Settles("initial") /\ errorFrom' = "initial"
InitialApplied == Settles("initial") /\ errorFrom' # "initial"
RefreshFailed  == Settles("refresh") /\ errorFrom' = "refresh"
RefreshApplied == Settles("refresh") /\ errorFrom' # "refresh"

\* C11 as stated: a successful loadMore moves the stored offset forward by
\* exactly the page size from the value stored when the response is applied.
C11_AdvancesStoredOffset ==
    [][MoreApplied => pagination'.offset = pagination.offset + PageLimit]_vars

\* C11 amended: a successful loadMore sets the cursor to the offset its own
\* request was made with plus the page size (which is the stored offset plus
\* the page size whenever the stored offset is still the requested one); the
\* page size is always 20; and the stored offset decreases only in a step
\* that applies a successful loadInitial or refresh response.
C11_AdvancesRequestedOffset ==
    /\ [](pagination.limit = PageLimit)
    /\ [][MoreApplied
            => /\ \A r \in Pending("more") :
                    /\ pagination' = [limit |-> PageLimit, offset |-> r.offset + PageLimit]
                    /\ r.offset = pagination.offset
                         => pagination'.offset = pagination.offset + PageLimit
               /\ pagination'.offset >= pagination.offset]_vars
    /\ [][pagination'.offset < pagination.offset
            => InitialApplied \/ RefreshApplied]_vars

\* C11 witness: two pages have been applied (one by a loadInitial, one by a
\* loadMore whose request was made before that loadInitial succeeded) and
\* the stored offset is one page size, not two.
C11_Witness ==
    /\ Len(applied) = 2
    /\ pagination.offset = PageLimit
    /\ inflight = EmptyBag

\* C12: a step that applies a successful loadInitial response makes the list
\* exactly the returned page and the cursor {20, 20}; and every step that
\* issues a loadMore request asks for the stored cursor, so the loadMore
\* issued next asks for offset 20.
C12_InitialReplaces ==
    /\ [][InitialApplied
            => /\ applied' = <<pokemonList'>>
               /\ pokemonList' \in {fetchPokemonList(raw).pokemon : raw \in RawListResponses}
               /\ pagination' = [limit |-> PageLimit, offset |-> PageLimit]
               /\ ~isLoading']_vars
    /\ [][Issued("more")
            => \A r \in Pending("more")' :
                  r.limit = pagination.limit /\ r.offset = pagination.offset]_vars

\* C12 witness: a loadInitial request (a retry) is pending over a list of
\* two pages whose cursor has moved past the first page.
C12_Witness ==
    /\ InFlight("initial") = 1
    /\ Len(applied) = 2
    /\ Len(pokemonList) > MaxPageLen
    /\ pagination.offset = 2 * PageLimit

\* C13: the catch block of loadInitial sets error to a message of
\* getErrorMessage and changes nothing else of the list, filtered view, search
\* text, cursor or hasMore; and every step that issues a loadInitial or
\* refresh request leaves error null.
C13_InitialFailureKeepsList ==
    /\ [][InitialFailed
            => /\ error' \in {getErrorMessage(e) : e \in ListFailures}
               /\ UNCHANGED <<pokemonList, filteredList, searchQuery, pagination,
                              hasMore, isRefreshing, storeDetail>>]_vars
    /\ [][(Issued("initial") \/ Issued("refresh")) => error' = Null]_vars

\* C13 witness: a loadInitial (a retry) has failed with a server error over
\* a loaded list with an active search text.
C13_Witness ==
    /\ errorFrom = "initial"
    /\ error = MsgServer
    /\ ~isLoading
    /\ pokemonList # <<>>
    /\ searchQuery # <<>>
    /\ pagination.offset = 2 * PageLimit

\* C14: the catch block of loadMore changes nothing in the store and leaves
\* the initial/refresh guard alone; it only releases the page-load guard, so
\* the cursor the next loadMore will request is the one stored before.
C14_SilentLoadMoreFailure ==
    [][MoreFailed
        => /\ UNCHANGED <<storeList, storeDetail, isFetchingRef>>
           /\ isLoadingMoreRef /\ ~isLoadingMoreRef']_vars

\* C14 witness: a page request is pending for the stored offset while the
\* store shows an error (of a refresh) over a loaded list.
C14_Witness ==
    /\ InFlight("more") = 1
    /\ \A r \in Pending("more") : r.offset = pagination.offset
    /\ error # Null
    /\ pokemonList # <<>>

\* C17 as stated: against a gateway whose pages are disjoint, the
\* accumulated list never holds an entry twice.
C17_NoDuplicates ==
    \A i \in 1..Len(pokemonList) : \A j \in 1..Len(pokemonList) :
        i # j => pokemonList[i] # pokemonList[j]

\* C17 state reached: with nothing in flight the list is the catalog's first
\* page twice.
C17_Witness ==
    /\ inflight = EmptyBag
    /\ pokemonList = CatalogPage(0) \o CatalogPage(0)
    /\ applied = <<CatalogPage(0), CatalogPage(0)>>

\* C15: against a gateway that settles every call, every raised loading
\* flag and every held guard is eventually followed by a state in which it
\* is down again, the guard of its class with it, whatever the outcome.
C15_FlagsReleased ==
    /\ (isLoading \/ isRefreshing \/ isFetchingRef)
         ~> (~isLoading /\ ~isRefreshing /\ ~isFetchingRef)
    /\ isLoadingMoreRef ~> ~isLoadingMoreRef
    /\ detailLoading ~> ~detailLoading

\* C15 witness: a refresh and a detail fetch have both failed, a page load
\* has been applied, and every flag and guard is down with nothing pending.
C15_Witness ==
    /\ inflight = EmptyBag
    /\ errorFrom = "refresh"
    /\ Len(applied) = 2
    /\ ~isLoading /\ ~isRefreshing /\ ~isFetchingRef /\ ~isLoadingMoreRef
    /\ pokemonId # NoScreen
    /\ detailError # Null
    /\ ~detailLoading

\* C18: a step that changes list state, a list guard or the pending list
\* requests leaves the detail state and the pending detail requests alone,
\* and conversely; and neither side's pending request disables the other
\* side's operation.
C18_DisjointState ==
    /\ [][(storeList' # storeList \/ refs' # refs \/ ListInFlight' # ListInFlight)
            => /\ UNCHANGED <<storeDetail, pokemonId>>
               /\ InFlight("detail")' = InFlight("detail")]_vars
    /\ [][(storeDetail' # storeDetail \/ pokemonId' # pokemonId
             \/ InFlight("detail")' # InFlight("detail"))
            => /\ UNCHANGED <<storeList, refs>>
               /\ ListInFlight' = ListInFlight]_vars
    /\ []((mounted /\ pokemonId # NoScreen /\ InFlight("detail") < MaxDetailInFlight)
            => ENABLED Retry)
    /\ []((mounted /\ hasMore /\ ~isLoading /\ ~isRefreshing /\ ~isLoadingMoreRef
             /\ pagination.offset < MaxPages * PageLimit)
            => ENABLED LoadMoreData)

\* C18 witness: a page request and a detail request are pending together.
C18_Witness ==
    /\ InFlight("more") = 1
    /\ InFlight("detail") = 1
    /\ isLoadingMoreRef
    /\ detailLoading
    /\ pokemonList # <<>>

\* C19: a step adds at most one request to those pending; a step that adds
\* one is an invocation of loadInitial, loadMore, refresh or fetchDetail; and
\* a step that runs a catch block (it sets error or detailError, or it
\* releases the page-load guard) takes one request away and adds none.
C19_NoAutomaticRetry ==
    /\ [][BagCardinality(inflight') <= BagCardinality(inflight) + 1]_vars
    /\ [][BagCardinality(inflight') > BagCardinality(inflight)
            => \/ LoadInitialData
               \/ LoadMoreData
               \/ RefreshData
               \/ \E id \in Ids : FetchDetail(id)]_vars
    /\ [][(\/ error' # error /\ error' # Null
           \/ detailError' # detailError /\ detailError' # Null
           \/ isLoadingMoreRef /\ ~isLoadingMoreRef')
            => BagCardinality(inflight') = BagCardinality(inflight) - 1]_vars

\* C19 witness: a list load and a detail fetch have both failed and nothing
\* is pending.
C19_Witness ==
    /\ inflight = EmptyBag
    /\ error # Null
    /\ detailError # Null
    /\ ~isLoading /\ ~isRefreshing /\ ~detailLoading

\* C16: a step that issues a detail request raises detailLoading, clears
\* detailError and keeps the stored record; a step that settles one lowers
\* detailLoading and either stores the record of the request it answers or
\* stores a message of getErrorMessage and keeps the stored record; so a
\* not-found failure from the reset state leaves the record null with the
\* not-found string; and reset() sets record and error to null.
C16_FetchDetailOutcome ==
    /\ [][Issued("detail")
            => /\ detailLoading' /\ detailError' = Null
               /\ selectedPokemon' = selectedPokemon]_vars
    /\ [][Settles("detail")
            => /\ ~detailLoading'
               /\ \/ /\ \E r \in Pending("detail") :
                           /\ CopiesIn(r, inflight') = CopiesIn(r, inflight) - 1
                           /\ selectedPokemon' = PokemonDetail(r.id)
                     /\ detailError' = detailError
                  \/ /\ detailError' \in {getErrorMessage(e) : e \in DetailFailures}
                     /\ selectedPokemon' = selectedPokemon]_vars
    /\ [][(Settles("detail") /\ selectedPokemon = NullPokemon /\ detailError = Null
             /\ detailError' # Null /\ detailError' # MsgInvalid)
            => /\ selectedPokemon' = NullPokemon
               /\ detailError' = MsgNotFound
               /\ detailError' = getErrorMessage(AxiosError("ERR_BAD_REQUEST", 404))]_vars
    /\ [][(LeaveDetail \/ Cleanup)
            => selectedPokemon' = NullPokemon /\ detailError' = Null /\ ~detailLoading']_vars

\* C16 witness: the only detail request of the mounted screen has failed
\* with not-found from the reset state.
C16_Witness ==
    /\ pokemonId # NoScreen
    /\ InFlight("detail") = 0
    /\ selectedPokemon = NullPokemon
    /\ detailError = MsgNotFound
    /\ ~detailLoading

\* C20: getErrorMessage returns, by priority: the timeout message for an
\* axios error with code ECONNABORTED, with or without a response; else the
\* network message when there is no response; else the message of the
\* response status (404, 429, 500/502/503, any other); for another Error its
\* own message; for anything else the unknown message.
C20_ErrorClasses ==
    message # Null =>
        LET timeout == thrown.axios /\ thrown.code = "ECONNABORTED"
            answered == thrown.axios /\ ~timeout /\ thrown.status # 0
        IN  /\ timeout => message = MsgTimeout
            /\ (thrown.axios /\ ~timeout /\ thrown.status = 0) => message = MsgNetwork
            /\ (answered /\ thrown.status = 404) => message = MsgNotFound
            /\ (answered /\ thrown.status = 429) => message = MsgRateLimit
            /\ (answered /\ thrown.status \in {500, 502, 503}) => message = MsgServer
            /\ (answered /\ thrown.status \notin {404, 429, 500, 502, 503})
                 => message = MsgUnexpected
            /\ (~thrown.axios /\ thrown.isError) => message = thrown.message
            /\ (~thrown.axios /\ ~thrown.isError) => message = MsgUnknown

\* C20 witness: a timeout without a response has been classified as a
\* timeout.
C20_Witness ==
    /\ thrown = AxiosError("ECONNABORTED", 0)
    /\ message = MsgTimeout

\* A loadInitial or refresh is under way.
InitialOrRefreshBusy ==
    \/ InFlight("initial") + InFlight("refresh") > 0
    \/ isLoading
    \/ isRefreshing

\* C21: while a loadInitial or refresh request is in flight, or isLoading
\* or isRefreshing is true, loadMore() is disabled (directly and through the
\* end-reached handler) and no step issues a page request or takes the
\* page-load guard.
C21_NoLoadMoreDuringInitialOrRefresh ==
    /\ [](InitialOrRefreshBusy => ~ENABLED LoadMoreData /\ ~ENABLED HandleEndReached)
    /\ [][InitialOrRefreshBusy
            => ~Issued("more") /\ (isLoadingMoreRef' => isLoadingMoreRef)]_vars

\* C21 witness: a refresh is pending over a loaded list in a state where
\* every other check of loadMore() passes.
C21_Witness ==
    /\ InFlight("refresh") = 1
    /\ isRefreshing
    /\ InFlight("more") = 0
    /\ hasMore /\ ~isLoadingMoreRef
    /\ searchQuery = <<>>
    /\ pokemonList # <<>>
    /\ pagination.offset < MaxPages * PageLimit

\* C22: every step that applies a loadMore response appends its page to
\* the list the store holds at that moment, sets the cursor to the offset of
\* its own request plus the page size and hasMore to its own flag, also
\* when that list and cursor were put there by a refresh (or loadInitial)
\* that completed after the request was made.
C22_StaleResponseApplied ==
    [][MoreApplied
        => \A r \in Pending("more") :
              /\ pokemonList' = pokemonList \o applied'[Len(applied')]
              /\ pagination' = [limit |-> r.limit, offset |-> r.offset + r.limit]
              /\ hasMore' = lastFlag'[1]]_vars

\* C22 witness: a page requested at offset 0 has been appended, with
\* hasMore = false, to a list that a later response had replaced; the
\* cursor is the request's offset plus one page.
C22_Witness ==
    /\ Len(applied) = 2
    /\ applied[1] # <<>> /\ applied[2] # <<>>
    /\ pokemonList = applied[1] \o applied[2]
    /\ pagination.offset = PageLimit
    /\ ~hasMore
    /\ ListInFlight = 0

\* C23: whenever error is non-null and the full-screen loading condition
\* is false the list screen renders the error view, whatever the list holds;
\* and the error view goes away only in a step that issues a loadInitial or
\* refresh request.
C23_ErrorViewReplacesList ==
    /\ []((error # Null /\ ~(isLoading /\ Len(filteredList) = 0)) => ListView = "error")
    /\ [][(ListView = "error" /\ ListView' # "error")
            => Issued("initial") \/ Issued("refresh")]_vars

\* C23 witness: a refresh has failed over a loaded, displayed list and the
\* error view is rendered in its place.
C23_Witness ==
    /\ errorFrom = "refresh"
    /\ pokemonList # <<>>
    /\ filteredList # <<>>
    /\ ListView = "error"

\* The catalog's pages at offsets 0, 20, ..., offset-20.
CatalogPagesBelow(offset) ==
    [i \in 1..(offset \div PageLimit) |-> CatalogPage((i - 1) * PageLimit)]

\* C26: when the user never starts a loadInitial or refresh while a page
\* request is pending, then whenever no list request is in flight the pages
\* applied since the last replace are the catalog's pages at offsets 0, 20,
\* ..., offset-20 in order, and the list is their concatenation; and every
\* page request asks for the stored offset, whose page is the first one not
\* yet applied.
C26_PagesInOrder ==
    /\ [](ListInFlight = 0 =>
            /\ applied = CatalogPagesBelow(pagination.offset)
            /\ pokemonList = Flatten(CatalogPagesBelow(pagination.offset)))
    /\ [][Issued("more")
            => \A r \in Pending("more")' :
                  /\ r.offset = pagination.offset
                  /\ applied = CatalogPagesBelow(r.offset)]_vars

\* C26 witness: two pages loaded, nothing in flight, cursor at 40.
C26_Witness ==
    /\ ListInFlight = 0
    /\ pagination.offset = 2 * PageLimit
    /\ pokemonList = CatalogPage(0) \o CatalogPage(PageLimit)
    /\ pokemonList # CatalogPage(0)

\* C27: a step that applies a refresh response empties the search text,
\* makes list and filtered view the fresh page, leaves error null and sets
\* the cursor to {20, 20}; the catch block of refresh leaves the search text
\* as it is.
C27_RefreshResetsSearch ==
    /\ [][RefreshApplied
            => /\ searchQuery' = <<>>
               /\ applied' = <<pokemonList'>>
               /\ filteredList' = pokemonList'
               /\ error' = Null
               /\ pagination' = [limit |-> PageLimit, offset |-> PageLimit]]_vars
    /\ [][RefreshFailed => UNCHANGED searchQuery]_vars

\* C27 witness: a refresh is pending while a search text hides part of the
\* list.
C27_Witness ==
    /\ InFlight("refresh") = 1
    /\ searchQuery # <<>>
    /\ Len(filteredList) < Len(pokemonList)

\* C28: isLoading and isRefreshing are never both true; either of them
\* implies the shared guard is held with a request of its class in flight;
\* and with the guard free both are false.
C28_FlagsFollowGuard ==
    /\ ~(isLoading /\ isRefreshing)
    /\ (isLoading \/ isRefreshing)
         => isFetchingRef /\ InFlight("initial") + InFlight("refresh") = 1
    /\ ~isFetchingRef => ~isLoading /\ ~isRefreshing

\* C28 witness: a retry is pending (isLoading up, guard held) while a page
\* request made before it is still pending.
C28_Witness ==
    /\ isLoading /\ ~isRefreshing /\ isFetchingRef
    /\ InFlight("initial") = 1
    /\ InFlight("more") = 1

\* C29 as stated: while a request for the id of the mounted detail screen
\* is in flight, detailLoading is true.
C29_LoadingWhilePending ==
    (pokemonId # NoScreen /\ \E r \in Pending("detail") : r.id = pokemonId)
        => detailLoading

\* C29 state reached: the screen's own request is the only one pending, the
\* response to the request of the previous detail view has been stored, and
\* detailLoading is false.
C29_Witness ==
    /\ pokemonId # NoScreen
    /\ InFlight("detail") = 1
    /\ \A r \in Pending("detail") : r.id = pokemonId
    /\ selectedPokemon # NullPokemon
    /\ selectedPokemon.id # pokemonId
    /\ ~detailLoading

\* C24: a keystroke replaces the timer by one for the typed text with the
\* whole debounce period ahead and does not touch the shared search text;
\* only a keystroke starts a timer, and a running timer keeps the text typed
\* last while its time runs down, and goes away only by firing or with its
\* SearchBar instance; the search text changes
\* only when the timer has run out (it then gets the timer's text and no
\* timer is left), in the clear action, which sets it to '' in its own step,
\* or when a refresh is applied.
C24_Debounce ==
    /\ [][(\E text \in Queries : HandleChangeText(text))
            => /\ timer' = [set |-> TRUE, text |-> localValue', left |-> DebounceMs]
               /\ UNCHANGED searchQuery]_vars
    /\ [][(timer'.set /\ ~(\E text \in Queries : HandleChangeText(text)))
            => /\ timer.set
               /\ timer'.text = timer.text
               /\ timer'.left <= timer.left
               /\ timer'.left < timer.left => UNCHANGED searchQuery]_vars
    /\ [][(timer.set /\ ~timer'.set)
            => \/ timer.left = 0 /\ searchQuery' = timer.text
               \/ Remounts]_vars
    /\ [][searchQuery' # searchQuery
            => \/ /\ timer.set /\ timer.left = 0
                  /\ searchQuery' = timer.text
                  /\ ~timer'.set
               \/ /\ cleared'
                  /\ searchQuery' = <<>>
                  /\ localValue' = <<>>
               \/ /\ RefreshApplied
                  /\ searchQuery' = <<>>]_vars
    /\ [][HandleClear => searchQuery' = <<>> /\ localValue' = <<>>]_vars

\* C24 witness: the timer of the last keystroke has run out and delivered
\* its text, which filters the loaded list; no timer is left.
C24_Witness ==
    /\ searchQuery = <<"b", "A">>
    /\ localValue = searchQuery
    /\ ~timer.set
    /\ ~cleared
    /\ filteredList # <<>>
    /\ Len(filteredList) < Len(pokemonList)

\* C25 as stated: after the clear action, and until the user types again,
\* the shared search text is ''.
C25_ClearedStaysEmpty == cleared => searchQuery = <<>>

\* C25 state reached: nothing was typed since the clear action, no timer is
\* running, the SearchBar is on screen, and the search text is not ''.
C25_Witness ==
    /\ cleared
    /\ ~timer.set
    /\ ListView = "children"
    /\ searchQuery # <<>>
    /\ localValue = searchQuery

====
